---- MODULE Spec2Model ----
(***************************************************************************)
(* Model of the scan command of trivy-plugin-zarf (cmd/scan.go): a Zarf    *)
(* package is fetched and extracted, the combined OCI index is loaded and  *)
(* every descriptor is isolated into a single-entry layout and handed to   *)
(* the external scanner, one at a time; per-image errors are aggregated.   *)
(*                                                                         *)
(* Strings that the code inspects (image names, digests) are sequences of  *)
(* one-character strings; error texts are sequences of chunks.             *)
(***************************************************************************)
EXTENDS Integers, Sequences, FiniteSets, TLC

\* ------------------------------------------------------------------ bounds
\* Largest number of descriptors in a combined index.
MaxManifests == 2

\* Longest annotation value given to the name resolver.
MaxNameLen == 3

\* Largest number of hash characters in a digest given to the name resolver.
MaxHexLen == 17

\* Longest image name given to sanitizeFilename.
MaxFileNameLen == 3

\* --------------------------------------------------------- program constants
\* len(digest) > 20 selects the shortened digest name.
DigestMinLen == 20

\* parts[1][:16]
ShortHashLen == 16

\* specs.Versioned{SchemaVersion: 2}
DerivedSchemaVersion == 2

RefNameKey == "org.opencontainers.image.ref.name"

BaseNameKey == "org.opencontainers.image.base.name"

\* the default of the db-repository flag
VScanDbRepositoryDefault == "ghcr.io/aquasecurity/trivy-db"

\* --------------------------------------------------------- string helpers
Rep(c, n) == [k \in 1..n |-> c]

\* strings.HasPrefix over sequences
HasPrefix(s, p) == Len(s) >= Len(p) /\ SubSeq(s, 1, Len(p)) = p

\* s contains t as a contiguous subsequence (strings.Contains)
Contains(s, t) ==
    \E k \in 0..(Len(s) - Len(t)) : SubSeq(s, k + 1, k + Len(t)) = t

\* index of the first ":" of s, 0 when there is none
FirstColon(s) ==
    IF \E k \in 1..Len(s) : s[k] = ":"
    THEN CHOOSE k \in 1..Len(s) : s[k] = ":" /\ \A j \in 1..(k - 1) : s[j] # ":"
    ELSE 0

\* strings.Split(s, ":")
RECURSIVE SplitColon(_)
SplitColon(s) ==
    IF FirstColon(s) = 0 THEN <<s>>
    ELSE <<SubSeq(s, 1, FirstColon(s) - 1)>>
           \o SplitColon(SubSeq(s, FirstColon(s) + 1, Len(s)))

\* ------------------------------------------------------------ descriptors
Sha256Prefix == <<"s", "h", "a", "2", "5", "6", ":">>

MediaTypeOCI == "application/vnd.oci.image.manifest.v1+json"

NoAnnotations == [k \in {} |-> <<>>]

\* descriptors as they stand in index.json (JSON objects: the annotations
\* member is optional)
DocRef ==
    [mediaType |-> MediaTypeOCI, digest |-> Sha256Prefix \o Rep("1", 16), size |-> 1024,
     annotations |-> [k \in {RefNameKey} |-> <<"a", "/", "b", ":", "1">>]]

DocBase ==
    [mediaType |-> MediaTypeOCI, digest |-> Sha256Prefix \o Rep("2", 16), size |-> 2048,
     annotations |-> [k \in {BaseNameKey} |-> <<"c", ".", "d">>]]

\* another image, whose name differs from that of DocRef in one character
DocRefDot ==
    [mediaType |-> MediaTypeOCI, digest |-> Sha256Prefix \o Rep("5", 16), size |-> 4096,
     annotations |-> [k \in {RefNameKey} |-> <<"a", "/", "b", ".", "1">>]]

\* an empty annotations object
DocDigest ==
    [mediaType |-> MediaTypeOCI, digest |-> Sha256Prefix \o Rep("3", 20), size |-> 512,
     annotations |-> NoAnnotations]

\* no annotations member; 21 characters, 14 of them after the separator
DocShortHex ==
    [mediaType |-> MediaTypeOCI, digest |-> Sha256Prefix \o Rep("4", 14), size |-> 64]

DescriptorDocs == {DocRef, DocDigest, DocShortHex}

SchemaVersions == {1, 2}

\* json.Unmarshal into specv1.Descriptor: an absent annotations member
\* leaves the map empty
UnmarshalDescriptor(doc) ==
    [MediaType |-> doc.mediaType, Digest |-> doc.digest, Size |-> doc.size,
     Annotations |-> IF "annotations" \in DOMAIN doc THEN doc.annotations
                     ELSE NoAnnotations]

\* json.Unmarshal into specv1.Index
UnmarshalIndex(doc) ==
    [SchemaVersion |-> doc.schemaVersion,
     Manifests |-> [k \in 1..Len(doc.manifests) |-> UnmarshalDescriptor(doc.manifests[k])]]

\* json.Marshal of specv1.Descriptor: annotations carries omitempty
MarshalDescriptor(d) ==
    IF DOMAIN d.Annotations = {}
    THEN [mediaType |-> d.MediaType, digest |-> d.Digest, size |-> d.Size]
    ELSE [mediaType |-> d.MediaType, digest |-> d.Digest, size |-> d.Size,
          annotations |-> d.Annotations]

\* json.Marshal of specv1.Index
MarshalIndex(ix) ==
    [schemaVersion |-> ix.SchemaVersion,
     manifests |-> [k \in 1..Len(ix.Manifests) |-> MarshalDescriptor(ix.Manifests[k])]]

\* a resolver that looks at base.name first
getImageNameBaseFirst(descriptor) ==
    IF BaseNameKey \in DOMAIN descriptor.Annotations
    THEN [panic |-> FALSE, name |-> descriptor.Annotations[BaseNameKey]]
    ELSE IF RefNameKey \in DOMAIN descriptor.Annotations
    THEN [panic |-> FALSE, name |-> descriptor.Annotations[RefNameKey]]
    ELSE [panic |-> FALSE, name |-> descriptor.Digest]

\* a resolver that does not know base.name
getImageNameWithoutBase(descriptor) ==
    IF RefNameKey \in DOMAIN descriptor.Annotations
    THEN [panic |-> FALSE, name |-> descriptor.Annotations[RefNameKey]]
    ELSE IF Len(descriptor.Digest) > DigestMinLen
            /\ Len(SplitColon(descriptor.Digest)) > 1
            /\ Len(SplitColon(descriptor.Digest)[2]) >= ShortHashLen
    THEN [panic |-> FALSE,
          name |-> SubSeq(SplitColon(descriptor.Digest)[2], 1, ShortHashLen)]
    ELSE [panic |-> FALSE, name |-> descriptor.Digest]

\* a resolver that shortens every digest with a separator, whatever its length
getImageNameAlwaysShortened(descriptor) ==
    IF RefNameKey \in DOMAIN descriptor.Annotations
    THEN [panic |-> FALSE, name |-> descriptor.Annotations[RefNameKey]]
    ELSE IF BaseNameKey \in DOMAIN descriptor.Annotations
    THEN [panic |-> FALSE, name |-> descriptor.Annotations[BaseNameKey]]
    ELSE IF Len(SplitColon(descriptor.Digest)) > 1
    THEN [panic |-> FALSE,
          name |-> SubSeq(SplitColon(descriptor.Digest)[2], 1,
                          IF Len(SplitColon(descriptor.Digest)[2]) < ShortHashLen
                          THEN Len(SplitColon(descriptor.Digest)[2]) ELSE ShortHashLen)]
    ELSE [panic |-> FALSE, name |-> descriptor.Digest]

\* getImageNameFromDescriptor; panic is the slice-bounds panic of parts[1][:16]
getImageNameFromDescriptor(descriptor) ==
    IF RefNameKey \in DOMAIN descriptor.Annotations
    THEN [panic |-> FALSE, name |-> descriptor.Annotations[RefNameKey]]
    ELSE IF BaseNameKey \in DOMAIN descriptor.Annotations
    THEN [panic |-> FALSE, name |-> descriptor.Annotations[BaseNameKey]]
    ELSE IF Len(descriptor.Digest) > DigestMinLen
            /\ Len(SplitColon(descriptor.Digest)) > 1
    THEN IF Len(SplitColon(descriptor.Digest)[2]) >= ShortHashLen
         THEN [panic |-> FALSE,
               name |-> SubSeq(SplitColon(descriptor.Digest)[2], 1, ShortHashLen)]
         ELSE [panic |-> TRUE, name |-> <<>>]
    ELSE [panic |-> FALSE, name |-> descriptor.Digest]


\* ------------------------------------------------------- sanitizeFilename
\* the grave accent, which the module's lexer does not accept inside a string
Backtick == "U+0060"

UnsafeChars ==
    {"/", ":", " ", ".", ",", "@", "&", "=", "?", "#", "%", "*", "\"", "'", Backtick,
     "<", ">", "|", "\\", "!"}

\* replacer.Replace(imageName)
ReplaceUnsafe(s) == [k \in 1..Len(s) |-> IF s[k] \in UnsafeChars THEN "_" ELSE s[k]]

\* strings.ReplaceAll(s, "__", "_"): one left-to-right pass over
\* non-overlapping matches
RECURSIVE ReplaceAllDouble(_)
ReplaceAllDouble(s) ==
    IF Len(s) < 2 THEN s
    ELSE IF s[1] = "_" /\ s[2] = "_"
    THEN <<"_">> \o ReplaceAllDouble(SubSeq(s, 3, Len(s)))
    ELSE <<s[1]>> \o ReplaceAllDouble(SubSeq(s, 2, Len(s)))

\* for strings.Contains(sanitized, "__") { ... }
RECURSIVE CollapseUnderscores(_)
CollapseUnderscores(s) ==
    IF Contains(s, <<"_", "_">>) THEN CollapseUnderscores(ReplaceAllDouble(s)) ELSE s

\* strings.Trim(s, "_")
RECURSIVE TrimUnderscores(_)
TrimUnderscores(s) ==
    IF s = <<>> THEN s
    ELSE IF s[1] = "_" THEN TrimUnderscores(SubSeq(s, 2, Len(s)))
    ELSE IF s[Len(s)] = "_" THEN TrimUnderscores(SubSeq(s, 1, Len(s) - 1))
    ELSE s

UnknownImage == <<"u", "n", "k", "n", "o", "w", "n", "_", "i", "m", "a", "g", "e">>

\* a sanitizer that replaces double underscores in one pass only
sanitizeFilenameSinglePass(imageName) ==
    IF TrimUnderscores(ReplaceAllDouble(ReplaceUnsafe(imageName))) = <<>>
    THEN UnknownImage
    ELSE TrimUnderscores(ReplaceAllDouble(ReplaceUnsafe(imageName)))

\* a sanitizer whose fallback name holds an unsafe character
sanitizeFilenameDottedFallback(imageName) ==
    IF TrimUnderscores(CollapseUnderscores(ReplaceUnsafe(imageName))) = <<>>
    THEN <<"u", "n", "k", "n", "o", "w", "n", ".", "i", "m", "a", "g", "e">>
    ELSE TrimUnderscores(CollapseUnderscores(ReplaceUnsafe(imageName)))

\* a sanitizer without the strings.Trim of line 410
sanitizeFilenameUntrimmed(imageName) ==
    IF CollapseUnderscores(ReplaceUnsafe(imageName)) = <<>>
    THEN UnknownImage
    ELSE CollapseUnderscores(ReplaceUnsafe(imageName))

\* lines 376-418
sanitizeFilename(imageName) ==
    IF TrimUnderscores(CollapseUnderscores(ReplaceUnsafe(imageName))) = <<>>
    THEN UnknownImage
    ELSE TrimUnderscores(CollapseUnderscores(ReplaceUnsafe(imageName)))

\* ------------------------------------------------------------ error texts
\* the text of an operating-system or tool error wrapped by the code
IOError == "input/output error"

ExitStatus == "exit status 1"

\* fmt.Errorf("creating temp directory: %w", err)
MkdirTempError == <<"creating temp directory: ", IOError>>

\* fmt.Errorf("copying OCI layout: %w", fmt.Errorf("copying blobs: %w", err))
CopyBlobsError == <<"copying OCI layout: ", "copying blobs: ", IOError>>

\* fmt.Errorf("copying OCI layout: %w", fmt.Errorf("copying oci-layout: %w", err))
CopyMarkerError == <<"copying OCI layout: ", "copying oci-layout: ", IOError>>

\* fmt.Errorf("marshaling temp index: %w", err)
MarshalError == <<"marshaling temp index: ", "unsupported value">>

\* fmt.Errorf("writing temp index.json: %w", err)
WriteIndexError == <<"writing temp index.json: ", IOError>>

\* fmt.Errorf("Trivy scan failed for image %s: %v\n", imageName, err)
ScanFailedError(name) == <<"Trivy scan failed for image ">> \o name \o <<": ", ExitStatus, "\n">>

\* an aggregate that keeps the first error only
errorsToStringFirst(errs) == IF errs = <<>> THEN <<>> ELSE errs[1]

\* errorsToString: the texts joined by "; "
RECURSIVE errorsToString(_)
errorsToString(errs) ==
    IF errs = <<>> THEN <<>>
    ELSE IF Len(errs) = 1 THEN errs[1]
    ELSE errs[1] \o <<"; ">> \o errorsToString(Tail(errs))

\* ------------------------------------------------------------------ inputs
OutputDirs == {"", "results"}

OCIPrefix == <<"o", "c", "i", ":", "/", "/">>

\* a registry reference, a local package that exists, and two local paths
\* that do not, one of them close to a registry reference
PackageRefs == {OCIPrefix \o <<"r">>, <<"p">>, <<"q">>, <<"o", "c", "i", ":", "/", "r">>}

LocalFiles == {<<"p">>}

\* the .tar.zst file PullZarfPackage finds in the extraction directory
PulledFile == <<"t", "/", "p">>

\* the files under <images>/blobs of an extracted package
NoFiles == [p \in {} |-> ""]

\* the files under blobs: relative path |-> content
BlobTree ==
    (<<"sha256", "aa">> :> "manifest") @@ (<<"sha256", "bb">> :> "layer")
        @@ (<<"file1.txt">> :> "content1")

\* blobs directory present with its files, or absent
BlobShapes == {[blobsDir |-> TRUE, blobs |-> BlobTree], [blobsDir |-> FALSE, blobs |-> NoFiles]}

NoDoc == [schemaVersion |-> 0, manifests |-> <<>>]

IndexDocs ==
    {[schemaVersion |-> v, manifests |-> m] :
        v \in SchemaVersions,
        m \in UNION {[1..n -> DescriptorDocs] : n \in 0..MaxManifests}}

\* index.json of the extracted images directory
IndexFiles ==
    {[kind |-> k, doc |-> NoDoc] : k \in {"absent", "unreadable", "garbage"}}
    \cup {[kind |-> "json", doc |-> d] : d \in IndexDocs}

NoStore == [images |-> FALSE, index |-> [kind |-> "absent", doc |-> NoDoc],
            blobsDir |-> FALSE, blobs |-> NoFiles, marker |-> FALSE]

\* what decompression can leave under <tempDir>/images
Stores ==
    {NoStore}
    \cup {[images |-> TRUE, index |-> f, blobsDir |-> b.blobsDir, blobs |-> b.blobs,
           marker |-> m] :
            f \in IndexFiles, b \in BlobShapes, m \in BOOLEAN}


\* ------------------------------------------------------------------- state
VARIABLES
    pc,           \* control point of scan() / scanOCIImages() / scanOCIImage()
    outputDir,    \* the --output flag ("" when not configured)
    dbRepository, \* the --db-repository flag
    packageRef,   \* scan()'s packageRef
    dirs,         \* temporary directories of the run that exist: 0 is the
                  \* extraction directory, 1.. are isolated layouts
    store,        \* the extracted <tempDir>/images directory
    loaded,       \* index.json has been read and parsed
    ociIndex,     \* scanOCIImages' parsed index
    idx,          \* position of the range loop over ociIndex.Manifests
    errors,       \* scanOCIImages' errors slice
    imageName,    \* scanOCIImage's imageName
    layout,       \* the isolated layout of the running iteration
    inflight,     \* external scanner invocations that have not returned
    result,       \* what scan() returned
    leaked,       \* history: directories whose deferred os.RemoveAll failed
    called,       \* history: positions scanOCIImage was called for
    outcomes,     \* history: what each call of scanOCIImage returned
    scans,        \* history: the scanner invocations, in order
    ops,          \* history: what scan() did with the package reference
    input,        \* argument of a function applied on its own
    output        \* the results of that function, in order

vars ==
    <<pc, outputDir, dbRepository, packageRef, dirs, store, loaded, ociIndex, idx,
      errors, imageName, layout, inflight, result, leaked, called, outcomes, scans,
      ops, input, output>>

NoIndex == [SchemaVersion |-> 0, Manifests |-> <<>>]

NoLayout == [dir |-> 0, blobsDir |-> FALSE, blobs |-> NoFiles, marker |-> FALSE,
             written |-> FALSE, index |-> NoDoc]

NoResult == [returned |-> FALSE, err |-> <<>>]

Init ==
    /\ pc = "Start"
    /\ outputDir \in OutputDirs
    /\ dbRepository = VScanDbRepositoryDefault
    /\ packageRef \in PackageRefs
    /\ dirs = {}
    /\ store = NoStore
    /\ loaded = FALSE
    /\ ociIndex = NoIndex
    /\ idx = 0
    /\ errors = <<>>
    /\ imageName = <<>>
    /\ layout = NoLayout
    /\ inflight = {}
    /\ result = NoResult
    /\ leaked = {}
    /\ called = <<>>
    /\ outcomes = <<>>
    /\ scans = <<>>
    /\ ops = <<>>
    /\ input = <<>>
    /\ output = <<>>

\* a test that takes every reference with the scheme "oci:" for a registry one
isOCIRefSchemeOnly(ref) == HasPrefix(ref, <<"o", "c", "i", ":">>)

\* line 99: strings.HasPrefix(packageRef, "oci://")
isOCIRef(ref) == HasPrefix(ref, OCIPrefix)

\* an existence check that is never negative
fileExistsAlways(ref) == TRUE

\* fileExists(packageRef): a file that was pulled is there
fileExists(ref) == ref \in LocalFiles \/ ref = PulledFile

\* a cleanup that was never deferred
RemoveAllForgotten(path) == UNCHANGED <<dirs, leaked>>

\* os.RemoveAll(path) of a deferred cleanup: the error is logged and the
\* directory may remain
RemoveAll(path) ==
    \/ dirs' = dirs \ {path} /\ UNCHANGED leaked
    \/ dirs' = dirs /\ leaked' = leaked \cup {path}

\* a return of scan() without the deferred cleanup
ReturnFromScanNoCleanup(err) ==
    /\ result' = [returned |-> TRUE, err |-> err]
    /\ pc' = "Done"
    /\ UNCHANGED <<dirs, leaked>>

\* scan() returns err after its deferred os.RemoveAll(tempDir)
ReturnFromScan(err) ==
    /\ result' = [returned |-> TRUE, err |-> err]
    /\ pc' = "Done"
    /\ RemoveAll(0)

\* lines 89-112: output directory and extraction directory
Prepare ==
    /\ pc = "Start"
    /\ \/ /\ outputDir # ""
          /\ result' = [returned |-> TRUE, err |-> <<IOError>>]
          /\ pc' = "Done"
          /\ UNCHANGED <<dirs, leaked>>
       \/ /\ result' = [returned |-> TRUE, err |-> <<IOError>>]
          /\ pc' = "Done"
          /\ UNCHANGED <<dirs, leaked>>
       \/ /\ dirs' = dirs \cup {0}
          /\ pc' = "Fetch"
          /\ UNCHANGED <<result, leaked>>
    /\ UNCHANGED <<input, output, ops>>
    /\ UNCHANGED <<outputDir, dbRepository, packageRef, store, loaded, ociIndex, idx,
                   errors, imageName, layout, inflight, called, outcomes, scans>>

\* lines 114-132: pull a registry reference, then the package file must exist
FetchPackage ==
    /\ pc = "Fetch"
    /\ IF isOCIRef(packageRef)
       THEN \/ /\ ReturnFromScan(<<"zarf package pull failed: ", ExitStatus>>)
               /\ ops' = Append(ops, [op |-> "pull", arg |-> packageRef])
               /\ UNCHANGED packageRef
            \/ /\ packageRef' = PulledFile
               /\ ops' = ops \o <<[op |-> "pull", arg |-> packageRef],
                                  [op |-> "exists", arg |-> PulledFile]>>
               /\ pc' = "Extract"
               /\ UNCHANGED <<result, dirs, leaked>>
       ELSE /\ ops' = Append(ops, [op |-> "exists", arg |-> packageRef])
            /\ UNCHANGED packageRef
            /\ IF fileExists(packageRef)
               THEN /\ pc' = "Extract"
                    /\ UNCHANGED <<result, dirs, leaked>>
               ELSE ReturnFromScan(<<"zarf package ">> \o packageRef
                                      \o <<" does not exist">>)
    /\ UNCHANGED <<input, output>>
    /\ UNCHANGED <<outputDir, dbRepository, store, loaded, ociIndex, idx, errors,
                   imageName, layout, inflight, called, outcomes, scans>>

\* lines 134-146: decompress, then the images directory must be there;
\* packages is what the package file may hold
Extract(packages) ==
    /\ pc = "Extract"
    /\ ops' = Append(ops, [op |-> "decompress", arg |-> packageRef])
    /\ \/ /\ ReturnFromScan(<<"zarf decompression failed: ", ExitStatus>>)
          /\ UNCHANGED store
       \/ \E s \in packages :
            /\ store' = s
            /\ IF s.images
               THEN pc' = "Load" /\ UNCHANGED <<result, dirs, leaked>>
               ELSE ReturnFromScan(<<"images directory not found in Zarf package">>)
    /\ UNCHANGED <<input, output>>
    /\ UNCHANGED <<outputDir, dbRepository, packageRef, loaded, ociIndex, idx, errors,
                   imageName, layout, inflight, called, outcomes, scans>>

ExtractPackage == Extract(Stores)

\* a loader that rejects an index without manifests
LoadErrorEmptyIsError(file) ==
    IF file.kind = "absent" THEN <<"index.json not found in ", "images">>
    ELSE IF file.kind = "unreadable" THEN <<"reading index.json: ", IOError>>
    ELSE IF file.kind = "garbage" THEN <<"parsing index.json: ", "invalid character">>
    ELSE IF Len(file.doc.manifests) = 0 THEN <<"no images found">>
    ELSE <<>>

\* a loader that drops the error of json.Unmarshal
LoadErrorIgnoreParse(file) ==
    IF file.kind = "absent" THEN <<"index.json not found in ", "images">>
    ELSE IF file.kind = "unreadable" THEN <<"reading index.json: ", IOError>>
    ELSE <<>>

\* lines 159-176: the error of loading index.json, <<>> when it parses
LoadError(file) ==
    IF file.kind = "absent" THEN <<"index.json not found in ", "images">>
    ELSE IF file.kind = "unreadable" THEN <<"reading index.json: ", IOError>>
    ELSE IF file.kind = "garbage" THEN <<"parsing index.json: ", "invalid character">>
    ELSE <<>>

\* line 187: the range loop visits the descriptors in index order
NextIdx(i) == i + 1

\* lines 156-185: read and parse index.json
LoadIndex ==
    /\ pc = "Load"
    /\ IF LoadError(store.index) # <<>>
       THEN /\ errors' = Append(errors, LoadError(store.index))
            /\ pc' = "Collect"
            /\ UNCHANGED <<loaded, ociIndex, idx>>
       ELSE /\ ociIndex' = UnmarshalIndex(store.index.doc)
            /\ loaded' = TRUE
            /\ idx' = 1
            /\ pc' = IF Len(store.index.doc.manifests) = 0 THEN "Collect" ELSE "Loop"
            /\ UNCHANGED errors
    /\ UNCHANGED <<input, output, ops>>
    /\ UNCHANGED <<outputDir, dbRepository, packageRef, dirs, store, imageName, layout,
                   inflight, result, leaked, called, outcomes, scans>>

\* a derived index that loses the descriptor's annotations
TempIndexStripped(descriptor) ==
    [SchemaVersion |-> DerivedSchemaVersion,
     Manifests |-> <<[descriptor EXCEPT !.Annotations = NoAnnotations]>>]

\* a derived index with another schema version
TempIndexVersionOne(descriptor) ==
    [SchemaVersion |-> 1, Manifests |-> <<descriptor>>]

\* lines 203-209: the index written into the isolated layout
TempIndex(descriptor) ==
    [SchemaVersion |-> DerivedSchemaVersion, Manifests |-> <<descriptor>>]

\* lines 308-337: io.Copy of the opened source into the created destination
copyFile(content) == content

\* a copy that does not descend into subdirectories
copyDirTopLevel(tree) == [p \in {q \in DOMAIN tree : Len(q) = 1} |-> copyFile(tree[p])]

\* lines 280-306: every entry is copied, directories recursively
copyDir(tree) == [p \in DOMAIN tree |-> copyFile(tree[p])]

\* lines 260-278: what copyOCILayout puts into the destination directory
copyOCILayout(src) ==
    [blobsDir |-> src.blobsDir,
     blobs |-> IF src.blobsDir THEN copyDir(src.blobs) ELSE NoFiles,
     marker |-> src.marker]

\* an invocation that names the report after the unsanitized image name
ScanCommandRawName(dir, name, outDir, dbRepo) ==
    IF outDir # ""
    THEN [input |-> dir, dbRepository |-> dbRepo, format |-> "json",
          output |-> <<outDir, "/">> \o name \o <<".json">>]
    ELSE [input |-> dir, dbRepository |-> dbRepo, format |-> "", output |-> <<>>]

\* an invocation that always names the default database repository
ScanCommandDefaultDb(dir, name, outDir, dbRepo) ==
    IF outDir # ""
    THEN [input |-> dir, dbRepository |-> VScanDbRepositoryDefault, format |-> "json",
          output |-> <<outDir, "/">> \o sanitizeFilename(name) \o <<".json">>]
    ELSE [input |-> dir, dbRepository |-> VScanDbRepositoryDefault, format |-> "",
          output |-> <<>>]

\* lines 238-246: the arguments of the trivy invocation
ScanCommand(dir, name, outDir, dbRepo) ==
    IF outDir # ""
    THEN [input |-> dir, dbRepository |-> dbRepo, format |-> "json",
          output |-> <<outDir, "/">> \o sanitizeFilename(name) \o <<".json">>]
    ELSE [input |-> dir, dbRepository |-> dbRepo, format |-> "", output |-> <<>>]

\* os.MkdirTemp("", "trivy-image-*"): a name no existing directory has
FreshDir == CHOOSE d \in 1..(Cardinality(dirs) + 1) : d \notin dirs

\* a loop that stops at the first image error
NextPcAbortOnError(err) ==
    IF err # <<>> \/ NextIdx(idx) > Len(ociIndex.Manifests) THEN "Collect" ELSE "Loop"

\* lines 187-193: the range loop goes on to the next descriptor, whatever
\* scanOCIImage returned, and line 195 returns after the last one
NextPc(err) ==
    IF NextIdx(idx) > Len(ociIndex.Manifests) THEN "Collect" ELSE "Loop"

\* an error list that keeps only the latest error
AppendErrorKeepLast(errs, err) == IF err # <<>> THEN <<err>> ELSE errs

\* lines 189-192: a non-nil error is appended
AppendError(errs, err) == IF err # <<>> THEN Append(errs, err) ELSE errs

\* scanOCIImage returns err to the loop of scanOCIImages
ReturnFromImage(err) ==
    /\ outcomes' = Append(outcomes, [idx |-> idx, err |-> err])
    /\ errors' = AppendError(errors, err)
    /\ idx' = NextIdx(idx)
    /\ pc' = NextPc(err)
    /\ imageName' = <<>>
    /\ layout' = NoLayout

\* lines 187-188 and 199-220: the loop calls scanOCIImage, which resolves the
\* name and creates the directory of the isolated layout
BeginImage ==
    /\ pc = "Loop"
    /\ idx <= Len(ociIndex.Manifests)
    /\ called' = Append(called, idx)
    /\ IF getImageNameFromDescriptor(ociIndex.Manifests[idx]).panic
       THEN \* the panic unwinds through scan()'s deferred cleanup and ends
            \* the process
            /\ pc' = "Panicked"
            /\ RemoveAll(0)
            /\ UNCHANGED <<outcomes, errors, idx, imageName, layout>>
       ELSE \/ /\ ReturnFromImage(MkdirTempError)
               /\ UNCHANGED <<dirs, leaked>>
            \/ /\ imageName' = getImageNameFromDescriptor(ociIndex.Manifests[idx]).name
               /\ layout' = [NoLayout EXCEPT !.dir = FreshDir]
               /\ dirs' = dirs \cup {FreshDir}
               /\ pc' = "Isolating"
               /\ UNCHANGED <<outcomes, errors, idx, leaked>>
    /\ UNCHANGED <<input, output, ops>>
    /\ UNCHANGED <<outputDir, dbRepository, packageRef, store, loaded, ociIndex,
                   inflight, result, scans>>

\* an isolation that writes the single-entry index over the combined one
StoreAfterIsolationInPlace(src, doc) == [src EXCEPT !.index.doc = doc]

\* lines 211-235: the copies read the source store and every write goes
\* under tempIndexDir, so the source store is left as it is
StoreAfterIsolation(src, doc) == src

\* lines 222-235: copy the blobs and the layout marker, write index.json;
\* a failure returns through the deferred os.RemoveAll(tempIndexDir)
IsolateImage ==
    /\ pc = "Isolating"
    /\ \/ /\ store.blobsDir
          /\ ReturnFromImage(CopyBlobsError)
          /\ RemoveAll(layout.dir)
          /\ UNCHANGED store
       \/ /\ store.marker
          /\ ReturnFromImage(CopyMarkerError)
          /\ RemoveAll(layout.dir)
          /\ UNCHANGED store
       \/ /\ ReturnFromImage(MarshalError)
          /\ RemoveAll(layout.dir)
          /\ UNCHANGED store
       \/ /\ ReturnFromImage(WriteIndexError)
          /\ RemoveAll(layout.dir)
          /\ UNCHANGED store
       \/ /\ layout' = [dir |-> layout.dir,
                        blobsDir |-> copyOCILayout(store).blobsDir,
                        blobs |-> copyOCILayout(store).blobs,
                        marker |-> copyOCILayout(store).marker,
                        written |-> TRUE,
                        index |-> MarshalIndex(TempIndex(ociIndex.Manifests[idx]))]
          /\ store' = StoreAfterIsolation(store,
                            MarshalIndex(TempIndex(ociIndex.Manifests[idx])))
          /\ pc' = "Isolated"
          /\ UNCHANGED <<outcomes, errors, idx, imageName, dirs, leaked>>
    /\ UNCHANGED <<input, output, ops>>
    /\ UNCHANGED <<outputDir, dbRepository, packageRef, loaded, ociIndex,
                   inflight, result, called, scans>>

\* isolation errors that are not checked
ReadyToScanUnchecked == pc \in {"Isolating", "Isolated"}

\* lines 223-235: each isolation step returns its error, so the scanner is
\* reached only when all of them succeeded
ReadyToScan == pc = "Isolated"

\* cmd.Start in place of cmd.Run: nothing waits for the scanner
ScannerNotAwaited(running, i) == running

\* line 252: cmd.Run waits for the scanner to exit
ScannerExited(running, i) == {f \in running : f.idx # i}

\* lines 237-252: build the command and start the external scanner
InvokeScanner ==
    /\ pc \in {"Isolating", "Isolated"}
    /\ ReadyToScan
    /\ inflight' = inflight \cup
                     {[idx |-> idx,
                       cmd |-> ScanCommand(layout.dir, imageName, outputDir, dbRepository)]}
    /\ scans' = Append(scans,
                       [idx |-> idx,
                        cmd |-> ScanCommand(layout.dir, imageName, outputDir, dbRepository),
                        layout |-> layout])
    /\ pc' = "Scanning"
    /\ UNCHANGED <<input, output, ops>>
    /\ UNCHANGED <<outputDir, dbRepository, packageRef, dirs, store, loaded, ociIndex,
                   idx, errors, imageName, layout, result, leaked, called, outcomes>>

\* lines 252-256 and 215-220: cmd.Run returns, the isolated layout is removed
ScannerReturns ==
    /\ pc = "Scanning"
    /\ inflight' = ScannerExited(inflight, idx)
    /\ \/ ReturnFromImage(ScanFailedError(imageName))
       \/ ReturnFromImage(<<>>)
    /\ RemoveAll(layout.dir)
    /\ UNCHANGED <<input, output, ops>>
    /\ UNCHANGED <<outputDir, dbRepository, packageRef, store, loaded, ociIndex,
                   result, called, scans>>

\* lines 150-153: the error scan() makes of the collected errors, <<>> is nil
ScanResult(errs) ==
    IF Len(errs) # 0 THEN <<"error scanning images: ">> \o errorsToString(errs) ELSE <<>>

\* lines 149-153: scanOCIImages has returned its errors
FinishScan ==
    /\ pc = "Collect"
    /\ ReturnFromScan(ScanResult(errors))
    /\ UNCHANGED <<input, output, ops>>
    /\ UNCHANGED <<outputDir, dbRepository, packageRef, store, loaded, ociIndex, idx,
                   errors, imageName, layout, inflight, called, outcomes, scans>>

Next ==
    \/ Prepare
    \/ FetchPackage
    \/ ExtractPackage
    \/ LoadIndex
    \/ BeginImage
    \/ IsolateImage
    \/ InvokeScanner
    \/ ScannerReturns
    \/ FinishScan

Spec == Init /\ [][Next]_vars

TypeOK ==
    /\ pc \in {"Start", "Fetch", "Extract", "Load", "Loop", "Isolating", "Isolated",
               "Scanning", "Collect", "Done", "Panicked"}
    /\ idx \in 0..(Len(ociIndex.Manifests) + 1)
    /\ Len(errors) <= Len(outcomes) + 1
    /\ result.returned <=> pc = "Done"


\* ------------------------------------------- the three-image scenario
\* packages whose combined index lists three different images
ThreeImageStores ==
    {[images |-> TRUE,
      index |-> [kind |-> "json", doc |-> [schemaVersion |-> v, manifests |-> m]],
      blobsDir |-> b.blobsDir, blobs |-> b.blobs, marker |-> k] :
        v \in SchemaVersions,
        m \in {f \in [1..3 -> {DocRef, DocBase, DocDigest}] :
                    \A i, j \in 1..3 : f[i] = f[j] => i = j},
        b \in BlobShapes, k \in BOOLEAN}

ExtractThreeImages == Extract(ThreeImageStores)

NextThree ==
    \/ Prepare
    \/ FetchPackage
    \/ ExtractThreeImages
    \/ LoadIndex
    \/ BeginImage
    \/ IsolateImage
    \/ InvokeScanner
    \/ ScannerReturns
    \/ FinishScan

SpecThree == Init /\ [][NextThree]_vars

\* --------------------------------------------- the two-image scenario
\* packages whose combined index lists two different images
PairStores ==
    {[images |-> TRUE,
      index |-> [kind |-> "json", doc |-> [schemaVersion |-> v, manifests |-> m]],
      blobsDir |-> b.blobsDir, blobs |-> b.blobs, marker |-> k] :
        v \in SchemaVersions,
        m \in {f \in [1..2 -> {DocRef, DocRefDot, DocDigest}] : f[1] # f[2]},
        b \in BlobShapes, k \in BOOLEAN}

ExtractPair == Extract(PairStores)

NextPair ==
    \/ Prepare
    \/ FetchPackage
    \/ ExtractPair
    \/ LoadIndex
    \/ BeginImage
    \/ IsolateImage
    \/ InvokeScanner
    \/ ScannerReturns
    \/ FinishScan

SpecPair == Init /\ [][NextPair]_vars

\* ------------------------------------------------- a run that goes on
\* scan() is one sequential thread: while a step is possible, one is taken
\* (every external command and file operation returns)
LiveSpec == Init /\ [][Next]_vars /\ WF_vars(Next)

\* ------------------------------------- a run with --db-repository given
\* the repository of the usage example (line 46)
MirrorDbRepository == "https://registry.example.com/trivy-db"

InitMirror ==
    /\ pc = "Start"
    /\ outputDir \in OutputDirs
    /\ dbRepository = MirrorDbRepository
    /\ packageRef \in PackageRefs
    /\ dirs = {}
    /\ store = NoStore
    /\ loaded = FALSE
    /\ ociIndex = NoIndex
    /\ idx = 0
    /\ errors = <<>>
    /\ imageName = <<>>
    /\ layout = NoLayout
    /\ inflight = {}
    /\ result = NoResult
    /\ leaked = {}
    /\ called = <<>>
    /\ outcomes = <<>>
    /\ scans = <<>>
    /\ ops = <<>>
    /\ input = <<>>
    /\ output = <<>>

SpecMirror == InitMirror /\ [][Next]_vars

\* ------------------------------------------- the name resolver on its own
\* the strings over alphabet of at most n characters
Strings(alphabet, n) == UNION {[1..k -> alphabet] : k \in 0..n}

NameAlphabet == {"a", "/"}

\* values of a name annotation, the empty string among them
Names == Strings(NameAlphabet, MaxNameLen)

TitleKey == "org.opencontainers.image.title"

\* annotation maps: any of ref.name, base.name and an unrelated key, or none
AnnotationMaps ==
    {[k \in K |-> IF k = TitleKey THEN <<"t">> ELSE f[k]] :
        K \in SUBSET {RefNameKey, BaseNameKey, TitleKey},
        f \in [{RefNameKey, BaseNameKey} -> Names]}

\* digest strings: an algorithm part with a separator, one without, one with
\* two separators; hash characters; nothing or a further separated part
DigestHeads ==
    {Sha256Prefix, <<"s", "h", "a", "2", "5", "6", "-">>, <<"s", ":", "t", ":">>}

DigestTails == {<<>>, <<":">> \o Rep("f", 8)}

Digests ==
    {h \o Rep("e", n) \o t : h \in DigestHeads, n \in 0..MaxHexLen, t \in DigestTails}

\* the descriptors handed to getImageNameFromDescriptor
NameDescriptors ==
    {[MediaType |-> MediaTypeOCI, Digest |-> d, Size |-> 1, Annotations |-> a] :
        d \in Digests, a \in AnnotationMaps}

InitNames ==
    /\ pc = "Call"
    /\ input \in NameDescriptors
    /\ output = <<>>
    /\ outputDir = ""
    /\ dbRepository = VScanDbRepositoryDefault
    /\ packageRef = <<"p">>
    /\ dirs = {}
    /\ store = NoStore
    /\ loaded = FALSE
    /\ ociIndex = NoIndex
    /\ idx = 0
    /\ errors = <<>>
    /\ imageName = <<>>
    /\ layout = NoLayout
    /\ inflight = {}
    /\ result = NoResult
    /\ leaked = {}
    /\ called = <<>>
    /\ outcomes = <<>>
    /\ scans = <<>>
    /\ ops = <<>>

\* line 199: imageName := getImageNameFromDescriptor(descriptor)
ResolveName ==
    /\ pc = "Call"
    /\ IF getImageNameFromDescriptor(input).panic
       THEN /\ pc' = "Panicked"
            /\ output' = output
       ELSE /\ pc' = "Returned"
            /\ output' = <<getImageNameFromDescriptor(input).name>>
    /\ UNCHANGED <<input, ops>>
    /\ UNCHANGED <<outputDir, dbRepository, packageRef, dirs, store, loaded, ociIndex,
                   idx, errors, imageName, layout, inflight, result, leaked, called,
                   outcomes, scans>>

NextNames == ResolveName

SpecNames == InitNames /\ [][NextNames]_vars

\* --------------------------------------------- sanitizeFilename on its own
\* every unsafe character, the underscore and two characters that are kept
FileNameAlphabet == UnsafeChars \cup {"_", "a", "-"}

\* inputs of TestSanitizeFilename
ExampleNginx ==
    <<"d", "o", "c", "k", "e", "r", ".", "i", "o", "/", "l", "i", "b", "r", "a", "r",
      "y", "/", "n", "g", "i", "n", "x", ":", "l", "a", "t", "e", "s", "t">>

ExampleDashes ==
    <<"n", "a", "m", "e", "-", "w", "i", "t", "h", "-", "d", "a", "s", "h", "e", "s">>

ExampleSlashes ==
    <<"/", "/", "/", "m", "u", "l", "t", "i", "p", "l", "e", "/", "/", "/", "s", "l",
      "a", "s", "h", "e", "s", "/", "/", "/">>

ExampleUnderscores ==
    <<"_", "_", "l", "o", "t", "s", "_", "_", "o", "f", "_", "_", "u", "n", "d", "e",
      "r", "s", "c", "o", "r", "e", "s", "_", "_">>

ExampleNames == {ExampleNginx, ExampleDashes, ExampleSlashes, ExampleUnderscores}

FileNames == Strings(FileNameAlphabet, MaxFileNameLen) \cup ExampleNames

InitSanitize ==
    /\ pc = "Call"
    /\ input \in FileNames
    /\ output = <<>>
    /\ outputDir = ""
    /\ dbRepository = VScanDbRepositoryDefault
    /\ packageRef = <<"p">>
    /\ dirs = {}
    /\ store = NoStore
    /\ loaded = FALSE
    /\ ociIndex = NoIndex
    /\ idx = 0
    /\ errors = <<>>
    /\ imageName = <<>>
    /\ layout = NoLayout
    /\ inflight = {}
    /\ result = NoResult
    /\ leaked = {}
    /\ called = <<>>
    /\ outcomes = <<>>
    /\ scans = <<>>
    /\ ops = <<>>

\* line 241: safeImageName := sanitizeFilename(imageName)
SanitizeName ==
    /\ pc = "Call"
    /\ output' = <<sanitizeFilename(input)>>
    /\ pc' = "Returned"
    /\ UNCHANGED <<input, ops>>
    /\ UNCHANGED <<outputDir, dbRepository, packageRef, dirs, store, loaded, ociIndex,
                   idx, errors, imageName, layout, inflight, result, leaked, called,
                   outcomes, scans>>

\* sanitizeFilename applied to what it returned
SanitizeAgain ==
    /\ pc = "Returned"
    /\ output' = Append(output, sanitizeFilename(output[1]))
    /\ pc' = "Reapplied"
    /\ UNCHANGED <<input, ops>>
    /\ UNCHANGED <<outputDir, dbRepository, packageRef, dirs, store, loaded, ociIndex,
                   idx, errors, imageName, layout, inflight, result, leaked, called,
                   outcomes, scans>>

NextSanitize ==
    \/ SanitizeName
    \/ SanitizeAgain

SpecSanitize == InitSanitize /\ [][NextSanitize]_vars

\* ------------------------------------------------------------ properties
\* the descriptors of the combined index as they stand on disk
SourceManifests == store.index.doc.manifests

\* the isolated layouts that exist
LayoutDirs == dirs \ {0}

\* the errors scanOCIImage returns before the scanner is started
IsolationErrors ==
    {MkdirTempError, CopyBlobsError, CopyMarkerError, MarshalError, WriteIndexError}

\* the resolved name of the k-th descriptor
ResolvedName(k) == getImageNameFromDescriptor(ociIndex.Manifests[k]).name

\* scanOCIImages has returned after loading the index
Aggregated == loaded /\ pc \in {"Collect", "Done"}

\* C1: once the run is in its Aggregated state, scanOCIImage has been called
\* for every descriptor of the combined index, in order, whatever failed.
C1_AllAttempted ==
    Aggregated => called = [k \in 1..Len(SourceManifests) |-> k]

C1_Witness ==
    /\ pc = "Done"
    /\ loaded
    /\ Len(SourceManifests) = 2
    /\ Len(outcomes) = 2
    /\ outcomes[1].err \in IsolationErrors
    /\ outcomes[2].err = ScanFailedError(ResolvedName(2))

\* the images whose scanOCIImage call returned an error
FailedOutcomes == {k \in 1..Len(outcomes) : outcomes[k].err # <<>>}

\* C2 as stated: scan() succeeds exactly when no image failed, and its error
\* contains the error of every failed image.
C2_SuccessIffNoImageError ==
    pc = "Done" =>
        /\ (result.err = <<>>) <=> (FailedOutcomes = {})
        /\ \A k \in FailedOutcomes : Contains(result.err, outcomes[k].err)

\* C2 amended: the same, for the runs that loaded the combined index.
C2_SuccessIffNoImageErrorOnceLoaded ==
    (pc = "Done" /\ loaded) =>
        /\ result.returned
        /\ (result.err = <<>>) <=> (FailedOutcomes = {})
        /\ \A k \in FailedOutcomes : Contains(result.err, outcomes[k].err)

C2_Witness ==
    /\ pc = "Done"
    /\ loaded
    /\ Len(outcomes) = 2
    /\ outcomes[1].err \in IsolationErrors
    /\ outcomes[2].err # <<>>
    /\ outcomes[2].err # outcomes[1].err

\* the errors of the isolation steps the claim names: blob or marker copy,
\* derived-index write
CopyOrWriteErrors == {CopyBlobsError, CopyMarkerError, WriteIndexError}

\* C3: with three descriptors of which the second fails in isolation (the
\* first and the third succeed), all three are attempted and have an outcome,
\* and the error scan() returns contains the second image's resolved name and
\* the name of no other image.
C3_AggregateNamesSecondImage ==
    (/\ pc = "Done"
     /\ loaded
     /\ Len(SourceManifests) = 3
     /\ Len(outcomes) = 3
     /\ outcomes[1].err = <<>>
     /\ outcomes[2].err \in CopyOrWriteErrors
     /\ outcomes[3].err = <<>>)
    =>
        /\ called = <<1, 2, 3>>
        /\ \A k \in 1..3 : outcomes[k].idx = k
        /\ result.err # <<>>
        /\ Contains(result.err, ResolvedName(2))
        /\ \A j \in {1, 3} :
             ResolvedName(j) # ResolvedName(2) => ~Contains(result.err, ResolvedName(j))

\* C4 as stated: no isolated layout survives its iteration, and at most one
\* exists at any time.
C4_LayoutAlwaysRemoved ==
    /\ pc \in {"Loop", "Collect", "Done", "Panicked"} => LayoutDirs = {}
    /\ Cardinality(LayoutDirs) <= 1

\* C4 amended: os.RemoveAll is called on the isolated layout on every exit
\* path of its iteration, so a layout that exists between iterations or after
\* the run is one whose removal failed; besides those, only the layout of the
\* running iteration exists.
C4_LayoutRemovedUnlessRemovalFails ==
    /\ pc \in {"Loop", "Collect", "Done", "Panicked"} => LayoutDirs \subseteq leaked
    /\ LayoutDirs \ leaked \subseteq {layout.dir}
    /\ Cardinality(LayoutDirs \ leaked) <= 1

C4_Witness ==
    /\ pc = "Loop"
    /\ Len(scans) = 1
    /\ Len(outcomes) = 1
    /\ scans[1].cmd.input = 1
    /\ outcomes[1].err # <<>>
    /\ LayoutDirs = {}

\* C5: an index without manifests gives a successful run with no call of
\* scanOCIImage, no scanner invocation, no isolated layout and no outcome.
C5_EmptyIndexSucceeds ==
    (store.images /\ store.index.kind = "json" /\ Len(SourceManifests) = 0) =>
        /\ pc \in {"Load", "Collect", "Done"}
        /\ pc # "Load" => loaded
        /\ errors = <<>>
        /\ called = <<>>
        /\ outcomes = <<>>
        /\ scans = <<>>
        /\ inflight = {}
        /\ LayoutDirs = {}
        /\ pc = "Done" => result = [returned |-> TRUE, err |-> <<>>]

C5_Witness ==
    /\ pc = "Done"
    /\ loaded
    /\ Len(SourceManifests) = 0
    /\ result.returned

\* C6: the index.json of an isolated layout has exactly one manifest entry,
\* whose digest, mediaType, size and annotations are those of the source
\* descriptor of the running iteration.
C6_SingleUnmodifiedEntry ==
    layout.written =>
        /\ Len(layout.index.manifests) = 1
        /\ LET w == UnmarshalDescriptor(layout.index.manifests[1])
               d == UnmarshalDescriptor(SourceManifests[idx])
           IN  /\ w.Digest = d.Digest
               /\ w.MediaType = d.MediaType
               /\ w.Size = d.Size
               /\ w.Annotations = d.Annotations

C6_Witness ==
    /\ pc = "Scanning"
    /\ layout.written
    /\ idx = 2
    /\ SourceManifests[2] = DocRef
    /\ SourceManifests[1] = DocDigest

C8_Sequential ==
    /\ Cardinality(inflight) <= 1
    /\ called = [k \in 1..Len(called) |-> k]
    /\ \A k \in 1..Len(outcomes) : outcomes[k].idx = k
    /\ Len(outcomes) <= Len(called)
    /\ Len(called) <= Len(outcomes) + 1
    /\ \A j, k \in 1..Len(scans) : j < k => scans[j].idx < scans[k].idx
    /\ \A f \in inflight :
         /\ Len(called) = Len(outcomes) + 1
         /\ f.idx = called[Len(called)]

C8_Witness ==
    /\ pc = "Scanning"
    /\ Len(scans) = 2
    /\ Len(outcomes) = 1
    /\ \E f \in inflight : f.idx = 2

\* C9: a descriptor whose isolation failed is never scanned: its error is in
\* the error list, the loop went on, and every scanner invocation was given a
\* layout whose copy and index write had completed.
C9_NoScanAfterFailedIsolation ==
    /\ \A k \in 1..Len(outcomes) :
         outcomes[k].err \in IsolationErrors =>
            /\ \A j \in 1..Len(scans) : scans[j].idx # outcomes[k].idx
            /\ \E j \in 1..Len(errors) : errors[j] = outcomes[k].err
            /\ pc \in {"Done", "Collect"} \/ idx > outcomes[k].idx
    /\ \A j \in 1..Len(scans) :
         /\ scans[j].layout.written
         /\ scans[j].cmd.input = scans[j].layout.dir

C9_Witness ==
    /\ pc = "Scanning"
    /\ Len(outcomes) = 1
    /\ outcomes[1].err = WriteIndexError
    /\ Len(scans) = 1
    /\ scans[1].idx = 2

\* C10: when index.json is absent, unreadable or unparsable, the run fails
\* with an error, without any isolated layout or scanner invocation.
C10_IndexFailureIsFatal ==
    (store.images /\ store.index.kind # "json") =>
        /\ ~loaded
        /\ called = <<>>
        /\ scans = <<>>
        /\ inflight = {}
        /\ LayoutDirs = {}
        /\ pc \in {"Load", "Collect", "Done"}
        /\ pc = "Collect" => errors # <<>>
        /\ pc = "Done" => result.returned /\ result.err # <<>>

C10_Witness ==
    /\ pc = "Done"
    /\ store.images
    /\ store.index.kind = "garbage"
    /\ result.err # <<>>

\* the errors of the failed calls among outs, in the order of the calls
RECURSIVE ErrorsOf(_)
ErrorsOf(outs) ==
    IF outs = <<>> THEN <<>>
    ELSE ErrorsOf(SubSeq(outs, 1, Len(outs) - 1))
            \o (IF outs[Len(outs)].err # <<>> THEN <<outs[Len(outs)].err>> ELSE <<>>)

\* s is an initial part of t
IsPrefix(s, t) == Len(s) <= Len(t) /\ SubSeq(t, 1, Len(s)) = s

\* C11: no descriptor is attempted twice, and every call of scanOCIImage has
\* returned once; after the index is loaded the error list of scanOCIImages
\* is the errors of the failed calls, one each, in descriptor order, and
\* nothing for the calls that succeeded; the list only ever grows at its end.
C11_OneErrorPerFailedDescriptor ==
    /\ [](/\ \A i, j \in 1..Len(called) : called[i] = called[j] => i = j
          /\ \A k \in 1..Len(outcomes) : outcomes[k].idx = called[k]
          /\ loaded => errors = ErrorsOf(outcomes)
          /\ Aggregated => Len(outcomes) = Len(SourceManifests))
    /\ [][IsPrefix(errors, errors')]_vars

C11_Witness ==
    /\ pc = "Collect"
    /\ loaded
    /\ Len(outcomes) = 2
    /\ outcomes[1].err = CopyBlobsError
    /\ outcomes[2].err = <<>>
    /\ errors = <<CopyBlobsError>>

\* the resolver was given a descriptor and is not running any more
Resolved == pc \in {"Returned", "Panicked"}

\* the descriptor given to the resolver carries neither name annotation
Unnamed ==
    /\ RefNameKey \notin DOMAIN input.Annotations
    /\ BaseNameKey \notin DOMAIN input.Annotations

\* C12: for a descriptor with a ref.name annotation the resolver returns
\* exactly its value, whatever the other annotations and the digest are.
C12_RefNameWins ==
    (Resolved /\ RefNameKey \in DOMAIN input.Annotations) =>
        /\ pc = "Returned"
        /\ output = <<input.Annotations[RefNameKey]>>

C12_Witness ==
    /\ pc = "Returned"
    /\ RefNameKey \in DOMAIN input.Annotations
    /\ BaseNameKey \in DOMAIN input.Annotations
    /\ input.Annotations[RefNameKey] # input.Annotations[BaseNameKey]
    /\ input.Digest = Sha256Prefix \o Rep("e", 14)
    /\ output = <<input.Annotations[RefNameKey]>>

\* C13: for a descriptor with a base.name annotation and no ref.name the
\* resolver returns the base.name value, whatever the digest is.
C13_BaseNameOverDigest ==
    (Resolved /\ BaseNameKey \in DOMAIN input.Annotations
              /\ RefNameKey \notin DOMAIN input.Annotations) =>
        /\ pc = "Returned"
        /\ output = <<input.Annotations[BaseNameKey]>>

C13_Witness ==
    /\ pc = "Returned"
    /\ DOMAIN input.Annotations = {BaseNameKey, TitleKey}
    /\ input.Digest = Sha256Prefix \o Rep("e", 16)
    /\ input.Annotations[BaseNameKey] = <<"a", "/", "a">>
    /\ output = <<<<"a", "/", "a">>>>

\* C14: for a descriptor without name annotation whose digest is longer than
\* 20 characters and contains ":", the resolver returns the 16 characters
\* that follow the first ":".
C14_ShortenedDigest ==
    (Resolved /\ Unnamed /\ Len(input.Digest) > DigestMinLen
              /\ FirstColon(input.Digest) # 0) =>
        /\ pc = "Returned"
        /\ output = <<SubSeq(input.Digest, FirstColon(input.Digest) + 1,
                             FirstColon(input.Digest) + ShortHashLen)>>

\* C15: for a descriptor without name annotation whose digest has at most 20
\* characters or no ":", the resolver returns the digest string unchanged.
C15_RawDigest ==
    (Resolved /\ Unnamed
              /\ (Len(input.Digest) <= DigestMinLen \/ FirstColon(input.Digest) = 0)) =>
        /\ pc = "Returned"
        /\ output = <<input.Digest>>

C15_Witness ==
    /\ pc = "Returned"
    /\ Unnamed
    /\ input.Digest = Sha256Prefix \o Rep("e", 13)
    /\ output = <<input.Digest>>

\* C16: sanitizeFilename applied to its own result returns that result, also
\* when the result is the fallback name.
C16_Idempotent ==
    pc = "Reapplied" => output[2] = output[1]

C16_Witness ==
    /\ pc = "Reapplied"
    /\ input = <<"_", "/", "?">>
    /\ output = <<UnknownImage, UnknownImage>>

\* C17: the result of sanitizeFilename is not empty, holds no unsafe
\* character and no two underscores in a row, and neither begins nor ends
\* with an underscore; for an input that is empty or made of unsafe
\* characters and underscores only, it is the fallback name.
C17_SafeName ==
    pc \in {"Returned", "Reapplied"} =>
        /\ output[1] # <<>>
        /\ \A k \in 1..Len(output[1]) : output[1][k] \notin UnsafeChars
        /\ ~Contains(output[1], <<"_", "_">>)
        /\ output[1][1] # "_"
        /\ output[1][Len(output[1])] # "_"
        /\ (\A k \in 1..Len(input) : input[k] \in UnsafeChars \cup {"_"})
                => output[1] = UnknownImage

C17_Witness ==
    /\ pc = "Returned"
    /\ input = <<":", "a", "_">>
    /\ output = <<<<"a">>>>

\* C18: with an output directory every scanner invocation asks for the JSON
\* format and for the output file <outputDir>/<sanitized resolved name>.json;
\* without one no invocation carries a format or an output file.
C18_ReportArguments ==
    \A j \in 1..Len(scans) :
        IF outputDir # ""
        THEN /\ scans[j].cmd.format = "json"
             /\ scans[j].cmd.output =
                    <<outputDir, "/">>
                        \o sanitizeFilename(ResolvedName(scans[j].idx)) \o <<".json">>
        ELSE /\ scans[j].cmd.format = ""
             /\ scans[j].cmd.output = <<>>

C18_Witness ==
    /\ outputDir = "results"
    /\ Len(scans) = 1
    /\ ociIndex.Manifests[scans[1].idx].Annotations[RefNameKey] = <<"a", "/", "b", ":", "1">>
    /\ scans[1].cmd.format = "json"
    /\ scans[1].cmd.output = <<"results", "/", "a", "_", "b", "_", "1", ".json">>

\* the positions whose scanOCIImage call returned without error
SucceededImages ==
    {outcomes[k].idx : k \in {i \in 1..Len(outcomes) : outcomes[i].err = <<>>}}

\* the report files in the output directory: the scanner writes the file
\* named by --output when it exits with success
ReportFiles ==
    {scans[j].cmd.output :
        j \in {i \in 1..Len(scans) : /\ scans[i].idx \in SucceededImages
                                       /\ scans[i].cmd.output # <<>>}}

\* the report path of the k-th descriptor
ReportPath(k) == <<outputDir, "/">> \o sanitizeFilename(ResolvedName(k)) \o <<".json">>

\* C19: with an output directory, an index of 2 descriptors and two
\* successful scans, the output directory holds exactly 2 report files,
\* each named from the sanitized resolved name of its image: one distinct
\* file per image.
C19_OneReportPerImage ==
    (Aggregated /\ outputDir # "" /\ Len(SourceManifests) = 2
                /\ SucceededImages = {1, 2}) =>
        /\ \A k \in 1..2 : ReportPath(k) \in ReportFiles
        /\ Cardinality(ReportFiles) = 2

\* the package reference scan() was called with
GivenRef == IF ops = <<>> THEN packageRef ELSE ops[1].arg

\* C20: a reference is pulled exactly when it begins with "oci://"; the pull
\* comes first, and the existence check and the decompression are made on
\* the pulled file; any other reference is never pulled, is checked as a
\* local file, and when that file does not exist the run ends with an error
\* and nothing is decompressed.
C20_PullIffRegistryReference ==
    /\ Len(ops) <= 3
    /\ \A k \in 2..Len(ops) : ops[k].op # "pull"
    /\ pc \notin {"Start", "Fetch"} /\ ops = <<>> => pc = "Done" /\ result.err # <<>>
    /\ ops # <<>> =>
          IF HasPrefix(GivenRef, OCIPrefix)
          THEN /\ ops[1].op = "pull"
               /\ Len(ops) >= 2 => ops[2] = [op |-> "exists", arg |-> PulledFile]
               /\ Len(ops) = 3 => ops[3] = [op |-> "decompress", arg |-> PulledFile]
          ELSE /\ ops[1].op = "exists"
               /\ Len(ops) >= 2 =>
                     /\ Len(ops) = 2
                     /\ GivenRef \in LocalFiles
                     /\ ops[2] = [op |-> "decompress", arg |-> GivenRef]
               /\ GivenRef \notin LocalFiles =>
                     /\ Len(ops) = 1
                     /\ pc = "Done"
                     /\ result.err = <<"zarf package ">> \o GivenRef \o <<" does not exist">>

C20_Witness ==
    /\ pc = "Load"
    /\ ops = <<[op |-> "pull", arg |-> OCIPrefix \o <<"r">>],
               [op |-> "exists", arg |-> PulledFile],
               [op |-> "decompress", arg |-> PulledFile]>>

\* C21: getImageNameFromDescriptor returns a name, without aborting, for
\* every descriptor it is given.
C21_ResolverAlwaysReturns ==
    Resolved => pc = "Returned" /\ Len(output) = 1

\* C22: with an output directory, the scanner invocations made for two
\* different descriptors of the combined index never name the same report
\* file.
C22_DistinctReportPaths ==
    outputDir # "" =>
        \A i, j \in 1..Len(scans) :
            (/\ scans[i].idx # scans[j].idx
             /\ ociIndex.Manifests[scans[i].idx] # ociIndex.Manifests[scans[j].idx])
                => scans[i].cmd.output # scans[j].cmd.output

\* C23: the layout handed to the scanner is complete: every file under the
\* blob directory of the source store is in the layout at the same relative
\* path with the same content, the layout marker is there exactly when the
\* source has one, and the single-entry index has been written.
C23_IsolationComplete ==
    \A j \in 1..Len(scans) :
        /\ store.blobsDir =>
              \A p \in DOMAIN store.blobs :
                  /\ p \in DOMAIN scans[j].layout.blobs
                  /\ scans[j].layout.blobs[p] = store.blobs[p]
        /\ scans[j].layout.marker <=> store.marker
        /\ scans[j].layout.written
        /\ Len(scans[j].layout.index.manifests) = 1

C23_Witness ==
    /\ pc = "Scanning"
    /\ Len(scans) = 2
    /\ store.blobsDir
    /\ store.marker
    /\ scans[2].layout.blobs[<<"sha256", "bb">>] = "layer"

\* C24: no iteration modifies the source store: from the moment the store is
\* extracted no step changes it, and the loaded index stays the index that
\* stands in the store.
C24_SourceStoreUnchanged ==
    /\ [](loaded => ociIndex = UnmarshalIndex(store.index.doc))
    /\ [][pc \notin {"Start", "Fetch", "Extract"} => store' = store]_vars

C24_Witness ==
    /\ pc = "Done"
    /\ store.blobsDir
    /\ store.marker
    /\ Len(outcomes) = 2
    /\ outcomes[1].err = <<>>
    /\ outcomes[2].err = ScanFailedError(ResolvedName(2))
    /\ ociIndex = UnmarshalIndex(store.index.doc)

\* a character sanitizeFilename keeps
Kept(c) == c \notin UnsafeChars \cup {"_"}

HasKept(s) == \E k \in 1..Len(s) : Kept(s[k])

\* s without its leading run of unsafe characters and underscores
RECURSIVE DropRun(_)
DropRun(s) ==
    IF s = <<>> \/ Kept(s[1]) THEN s ELSE DropRun(Tail(s))

\* the kept characters of s in order, one underscore for every run that
\* has a kept character after it
RECURSIVE JoinKept(_)
JoinKept(s) ==
    IF ~HasKept(s) THEN <<>>
    ELSE IF Kept(s[1]) THEN <<s[1]>> \o JoinKept(Tail(s))
    ELSE <<"_">> \o JoinKept(DropRun(s))

\* C25: for an input with a kept character, the result of sanitizeFilename
\* is its kept characters in their order, with exactly one underscore for
\* each run of unsafe characters and underscores between two kept
\* characters, and nothing for the runs at the start and at the end.
C25_KeptCharactersJoined ==
    (pc \in {"Returned", "Reapplied"} /\ HasKept(input)) =>
        output[1] = JoinKept(DropRun(input))

C25_Witness ==
    /\ pc = "Returned"
    /\ input = ExampleNginx
    /\ output = <<<<"d", "o", "c", "k", "e", "r", "_", "i", "o", "_",
                    "l", "i", "b", "r", "a", "r", "y", "_",
                    "n", "g", "i", "n", "x", "_", "l", "a", "t", "e", "s", "t">>>>

\* C26: every scanner invocation carries the configured database
\* repository and takes the isolated layout directory of its image as
\* input, with and without an output directory.
C26_RepositoryAndInput ==
    \A j \in 1..Len(scans) :
        /\ scans[j].cmd.dbRepository = dbRepository
        /\ scans[j].cmd.input = scans[j].layout.dir
        /\ scans[j].cmd.input # 0
        /\ pc = "Scanning" /\ j = Len(scans) => scans[j].cmd.input \in LayoutDirs

C26_Witness ==
    /\ pc = "Scanning"
    /\ outputDir = ""
    /\ Len(scans) = 2
    /\ scans[2].cmd.dbRepository = MirrorDbRepository
    /\ scans[2].cmd.input = layout.dir

\* the errors scan() returns from the stages before the scan loop
StageErrors ==
    {<<IOError>>,
     <<"zarf package pull failed: ", ExitStatus>>,
     <<"zarf decompression failed: ", ExitStatus>>,
     <<"images directory not found in Zarf package">>}
    \cup {<<"zarf package ">> \o r \o <<" does not exist">> : r \in PackageRefs}

\* scan() has returned without an extracted images directory
StageFailed == pc = "Done" /\ ~store.images

\* C27: when a stage before the scan loop fails, scan() returns the error
\* of that stage, no isolated layout was created and the scanner was never
\* invoked; and scanOCIImage is called only when the package file exists,
\* was decompressed and gave an images directory with a loaded index.
C27_LoopOnlyAfterStages ==
    /\ StageFailed =>
          /\ result.err \in StageErrors
          /\ scans = <<>>
          /\ called = <<>>
          /\ inflight = {}
          /\ LayoutDirs = {}
          /\ leaked \subseteq {0}
    /\ called # <<>> =>
          /\ packageRef \in LocalFiles \cup {PulledFile}
          /\ ops[Len(ops)] = [op |-> "decompress", arg |-> packageRef]
          /\ store.images
          /\ loaded

C27_Witness ==
    /\ StageFailed
    /\ Len(ops) = 3
    /\ result.err = <<"images directory not found in Zarf package">>
    /\ scans = <<>>

\* C28 as stated: after scan() has returned, no temp directory created by
\* the run remains.
C28_NoTempDirAfterReturn ==
    pc = "Done" => dirs = {}

\* C28 amended: os.RemoveAll is called on the extraction directory on every
\* return path after its creation, so a temp directory that remains after
\* scan() has returned is one whose removal failed.
C28_TempDirsRemovedUnlessRemovalFails ==
    pc = "Done" => dirs \subseteq leaked

C28_Witness ==
    /\ pc = "Done"
    /\ Len(outcomes) = 2
    /\ outcomes[1].err = MkdirTempError
    /\ outcomes[2].err = <<>>
    /\ result.err # <<>>
    /\ dirs = {}

\* C29: once the index is loaded the run reaches its Aggregated state, and
\* it does so after exactly one recorded iteration per descriptor, each
\* scanned only if its isolation succeeded.
C29_EventuallyAggregated ==
    /\ loaded ~> Aggregated
    /\ [](Aggregated =>
            /\ Len(outcomes) = Len(SourceManifests)
            /\ \A j \in 1..Len(scans) : scans[j].layout.written)

====
